---- MODULE Spec2Model ----
(***************************************************************************)
(* Elevator simulation: Person, Elevator, the arrival generators           *)
(* (SingleArrivals, FileArrivals), the moving algorithms (EndToEndLoop,    *)
(* FurthestFloor) and the five-stage round of Simulation.run.              *)
(*                                                                         *)
(* Person objects are identified by their index in `persons`; every list   *)
(* of the program that holds Person objects (waiting[floor], passengers,   *)
(* total_people, reached_dest, arrival_data[round]) is a sequence of such  *)
(* indices, so that one object held by two lists is visible as such.       *)
(*                                                                         *)
(* The classes carry @check_contracts: the preconditions of a docstring    *)
(* that are Python expressions are evaluated on entry of the method and a  *)
(* false one raises AssertionError.  A raised exception ends the program   *)
(* (pc = "raised", err names the method that raised).                      *)
(***************************************************************************)
EXTENDS Integers, Sequences, FiniteSets, TLC

\* ---------------------------------------------------------------- bounds
MaxFloors == 3
MaxElevators == 2
MaxCapacity == 2
MaxRounds == 4
MaxPeople == 2
MaxCalls == 2

VARIABLES
    pc,            \* position of the program
    err,           \* the exception that ended the program, "" when none
    config,        \* the numbers and the strategy choices of the config dict
    csv,           \* the (round, start, target) entries of the arrivals file
    persons,       \* every Person object created so far
    arrival_data,  \* FileArrivals.arrival_data
    elevators,     \* Simulation.elevators
    waiting,       \* Simulation.waiting
    total_people,  \* Simulation.total_people
    reached_dest,  \* Simulation.reached_dest
    num_rounds,    \* argument of the current call of run
    i,             \* loop variable of run
    calls,         \* number of calls of run so far
    be,            \* handle_boarding: index of the elevator being served
    bi,            \* handle_boarding: position of the scan in waiting[key]
    boarded,       \* handle_boarding: people boarded by elevator be so far
    stats,         \* the mapping returned by the last call of run
    log,           \* stages executed so far in the current round
    gen_log,       \* round numbers passed to generate in the current call
    ticks,         \* update_wait_times calls completed in the current call
    my_arrivals,   \* generate_arrivals: the mapping returned by generate
    old_elevators, \* the elevators as passed to the last update_target_floors
    sprites,       \* Simulation.visualizer and the sprite part of the objects
    headless,      \* the simulation as the last handler leaves it when the
                   \* Visualizer does nothing
    at_boarding    \* the elevators and waiting as handle_boarding found them

vars == <<pc, err, config, csv, persons, arrival_data, elevators,
          waiting, total_people, reached_dest, num_rounds, i, calls, be, bi,
          boarded, stats, log, gen_log, ticks, my_arrivals,
          old_elevators, sprites, headless, at_boarding>>

\* ------------------------------------------------------- list helpers
Abs(x) == IF x < 0 THEN -x ELSE x

Range(s) == {s[k] : k \in 1..Len(s)}

RECURSIVE MaxOf(_)
MaxOf(s) == IF Len(s) = 1 THEN s[1]
            ELSE LET m == MaxOf(Tail(s)) IN IF s[1] >= m THEN s[1] ELSE m

RECURSIVE MinOf(_)
MinOf(s) == IF Len(s) = 1 THEN s[1]
            ELSE LET m == MinOf(Tail(s)) IN IF s[1] <= m THEN s[1] ELSE m

RECURSIVE SumOf(_)
SumOf(s) == IF s = <<>> THEN 0 ELSE s[1] + SumOf(Tail(s))

\* list.index(d): the position of the first element equal to d
IndexOf(s, d) == CHOOSE k \in 1..Len(s) : s[k] = d /\ \A j \in 1..(k - 1) : s[j] # d

RemoveFirstKept(s, x) == s

\* list.remove(x): drops the first element equal to x
RemoveFirst(s, x) ==
    IF x \in Range(s)
    THEN LET k == IndexOf(s, x)
         IN [j \in 1..(Len(s) - 1) |-> IF j < k THEN s[j] ELSE s[j + 1]]
    ELSE s

RECURSIVE RemoveAll(_, _)
RemoveAll(s, xs) == IF xs = <<>> THEN s
                    ELSE RemoveAll(RemoveFirst(s, xs[1]), Tail(xs))

RECURSIVE Flatten(_)
Flatten(ss) == IF ss = <<>> THEN <<>> ELSE ss[1] \o Flatten(Tail(ss))

\* the sequences over S of length at most n
SeqUpTo(S, n) == UNION {[1..k -> S] : k \in 0..n}

\* ------------------------------------------------------------ entities
Person(start, target) == [start |-> start, target |-> target, wait_time |-> 0]

\* Preconditions of Person.__init__ and the representation invariants
\* checked when it returns
PersonContract(start, target) == start >= 1 /\ target >= 1 /\ start # target

Elevator(capacity) ==
    [capacity |-> capacity, current_floor |-> 1, target_floor |-> 1,
     passengers |-> <<>>]

SimulationUnchecked(c) == TRUE

\* Preconditions of Simulation.__init__
SimulationContract(c) ==
    c.num_floors >= 2 /\ c.elevator_capacity >= 1 /\ c.num_elevators >= 1

\* ------------------------------------------------- arrival generators
\* Preconditions of ArrivalGenerator.__init__
ArrivalGeneratorContract(max_floor) == max_floor >= 2

\* The loop of FileArrivals.__init__: one Person per (start, target) pair of
\* the file, listed under the round number that opens its row.
FileRounds(file) == {file[k].round : k \in 1..Len(file)}

FilePeople(file) == [k \in 1..Len(file) |-> Person(file[k].start, file[k].target)]

FileArrivalData(file) ==
    [r \in FileRounds(file) |->
        SelectSeq([k \in 1..Len(file) |-> k], LAMBDA k : file[k].round = r)]

GroupByTarget(people, ps) ==
    LET idx    == [k \in 1..Len(people) |-> k]
        firsts == SelectSeq(idx, LAMBDA k :
                      \A j \in 1..(k - 1) : ps[people[j]].target # ps[people[k]].target)
    IN [m \in 1..Len(firsts) |->
          [floor  |-> ps[people[firsts[m]]].target,
           people |-> SelectSeq(people, LAMBDA p :
                          ps[p].target = ps[people[firsts[m]]].target)]]

\* dic of generate: the start floors of the people in order of first
\* appearance, each with the people starting there in list order
GroupByStart(people, ps) ==
    LET idx    == [k \in 1..Len(people) |-> k]
        firsts == SelectSeq(idx, LAMBDA k :
                      \A j \in 1..(k - 1) : ps[people[j]].start # ps[people[k]].start)
    IN [m \in 1..Len(firsts) |->
          [floor  |-> ps[people[firsts[m]]].start,
           people |-> SelectSeq(people, LAMBDA p :
                          ps[p].start = ps[people[firsts[m]]].start)]]

SingleTargetModMaxFloor(round_num, max_floor) == (round_num % max_floor) + 2

\* SingleArrivals.generate: the target floor of the one new Person
SingleTarget(round_num, max_floor) == (round_num % (max_floor - 1)) + 2

\* ---------------------------------------------------- moving algorithms
FurthestOfHighest(floors, current_floor) ==
    LET dist     == [k \in 1..Len(floors) |-> Abs(current_floor - floors[k])]
        max_dist == MaxOf(dist)
        far      == SelectSeq(floors, LAMBDA f : Abs(current_floor - f) = max_dist)
    IN MaxOf(far)

\* The selection shared by the two branches of FurthestFloor: dist holds the
\* distances of the candidate floors, note the positions found by
\* dist.index for the entries equal to the maximum, list_floor the floors
\* at those positions.
FurthestOf(floors, current_floor) ==
    LET dist       == [k \in 1..Len(floors) |-> Abs(current_floor - floors[k])]
        max_dist   == MaxOf(dist)
        hits       == SelectSeq(dist, LAMBDA d : d = max_dist)
        note       == [k \in 1..Len(hits) |-> IndexOf(dist, hits[k])]
        list_floor == [k \in 1..Len(note) |-> floors[note[k]]]
    IN MinOf(list_floor)

\* f of FurthestFloor: the floors with somebody waiting, in key order
WaitingFloors(w) ==
    SelectSeq([k \in 1..Cardinality(DOMAIN w) |-> k], LAMBDA k : Len(w[k]) # 0)

FurthestFloorTargetNoCommitment(e, w, ps) ==
    IF Len(e.passengers) # 0
    THEN FurthestOf([k \in 1..Len(e.passengers) |-> ps[e.passengers[k]].target],
                    e.current_floor)
    ELSE IF Len(WaitingFloors(w)) = 0
         THEN e.current_floor
         ELSE FurthestOf(WaitingFloors(w), e.current_floor)

FurthestFloorTarget(e, w, ps) ==
    IF Len(e.passengers) # 0
    THEN FurthestOf([k \in 1..Len(e.passengers) |-> ps[e.passengers[k]].target],
                    e.current_floor)
    ELSE IF e.target_floor = e.current_floor
         THEN IF Len(WaitingFloors(w)) = 0
              THEN e.current_floor
              ELSE FurthestOf(WaitingFloors(w), e.current_floor)
         ELSE e.target_floor

EndToEndLoopTargetUpOnly(e, max_floor) ==
    IF e.current_floor = 1 THEN max_floor ELSE e.target_floor

EndToEndLoopTarget(e, max_floor) ==
    IF e.current_floor = 1 THEN max_floor
    ELSE IF e.current_floor = max_floor THEN 1
    ELSE e.target_floor

\* ------------------------------------------------------------ simulation
CanBoardAnyTarget(key, p, e) ==
    \/ (key > p.target /\ e.target_floor <= key)
    \/ (key < p.target /\ e.target_floor <= key)

CanBoardMoving(key, p, e) ==
    \/ (key > p.target /\ e.target_floor < key)
    \/ (key < p.target /\ e.target_floor > key)

\* The condition of handle_boarding on the direction of person p at floor key
CanBoard(key, p, e) ==
    \/ (key > p.target /\ e.target_floor <= key)
    \/ (key < p.target /\ e.target_floor >= key)

HasRoomOffByOne(e) == Len(e.passengers) <= e.capacity

\* The condition of handle_boarding on the room left in elevator e
HasRoom(e) == Len(e.passengers) < e.capacity

LeavingAtTargetFloor(e, ps) ==
    SelectSeq(e.passengers, LAMBDA p : ps[p].target = e.target_floor)

\* temp of handle_disembarking
Leaving(e, ps) == SelectSeq(e.passengers, LAMBDA p : ps[p].target = e.current_floor)

\* The order of the stages in the loop body of run
StageOrder == <<"disembark", "arrivals", "board", "retarget", "move", "tick">>

StageAfterBoardFirst(s) ==
    LET order == <<"disembark", "board", "arrivals", "retarget", "move", "tick">>
    IN order[IndexOf(order, s) + 1]

StageAfter(s) == StageOrder[IndexOf(StageOrder, s) + 1]

MoveOneEager(e) ==
    IF e.current_floor >= e.target_floor
    THEN [e EXCEPT !.current_floor = @ - 1]
    ELSE [e EXCEPT !.current_floor = @ + 1]

MoveOneToTarget(e) == [e EXCEPT !.current_floor = e.target_floor]

\* One elevator's step in move_elevators
MoveOne(e) ==
    IF e.current_floor > e.target_floor
    THEN [e EXCEPT !.current_floor = @ - 1]
    ELSE IF e.current_floor < e.target_floor
         THEN [e EXCEPT !.current_floor = @ + 1]
         ELSE e

\* The entry of directions that move_elevators appends for one elevator
DirectionOf(e) ==
    IF e.current_floor > e.target_floor THEN "DOWN"
    ELSE IF e.current_floor < e.target_floor THEN "UP"
    ELSE "STAY"

Occurrences(s, x) == Cardinality({k \in 1..Len(s) : s[k] = x})

\* Every entry of every passenger list and of every waiting list, in the
\* order update_wait_times visits them
Travelling(es, w) ==
    Flatten([k \in 1..Len(es) |-> es[k].passengers])
        \o Flatten([k \in 1..Cardinality(DOMAIN w) |-> w[k]])

\* ---------------------------------------------------------- visualizer
WIDTH == 900
STAT_WINDOW_HEIGHT == 100
FLOOR_HEIGHT == 100
FLOOR_BORDER_HEIGHT == 10
ELEVATOR_HEIGHT == 66
ELEVATOR_WIDTH == 44

\* The rect and the image of an elevator as ElevatorSprite.__init__ leaves
\* them: get_rect() of a surface of ELEVATOR_WIDTH by ELEVATOR_HEIGHT, all
\* green, which is what update draws for a fullness of 0
ElevatorSprite ==
    [bottom |-> ELEVATOR_HEIGHT, centerx |-> ELEVATOR_WIDTH \div 2,
     image |-> <<0, 1>>]

\* len(passengers) / capacity, as numerator and denominator
fullness(e) == <<Len(e.passengers), e.capacity>>

get_anger_level(x) ==
    IF x \in {0, 1, 2} THEN 0
    ELSE IF x \in {3, 4} THEN 1
    ELSE IF x \in {5, 6} THEN 2
    ELSE IF x \in {7, 8} THEN 3
    ELSE 4

\* random.randint(a, b)
randint(a, b) == a..b

total_height(num_floors) == num_floors * FLOOR_HEIGHT + STAT_WINDOW_HEIGHT

get_y_of_floor(num_floors, floor) ==
    total_height(num_floors) - (floor - 1) * FLOOR_HEIGHT - FLOOR_BORDER_HEIGHT

\* The objects a Visualizer method can reach through its arguments, with
\* the list the handler around it is filling
World ==
    [persons |-> persons, elevators |-> elevators, sprites |-> sprites,
     reached_dest |-> reached_dest]

\* The same objects with a Visualizer built with visualize = False
Headless(w) == [w EXCEPT !.sprites.visualize = FALSE]

\* Visualizer(elevators, num_floors, visualize) on elevators just built;
\* people holds the rect and the image of the people in _sprite_group
Visualizer_init(es, num_floors, visualize) ==
    [visualize   |-> visualize,
     num_floors  |-> num_floors,
     open        |-> visualize,
     stats_group |-> {},
     people      |-> <<>>,
     elevators   |->
         [k \in 1..Len(es) |->
             IF visualize
             THEN [ElevatorSprite EXCEPT
                      !.centerx = (k * WIDTH) \div (Len(es) + 1),
                      !.bottom  = total_height(num_floors) - FLOOR_BORDER_HEIGHT]
             ELSE ElevatorSprite]]

render_header(round_num, w) ==
    IF ~w.sprites.visualize THEN w
    ELSE [w EXCEPT
             !.sprites.stats_group = {round_num},
             !.sprites.people =
                 [p \in DOMAIN @ |->
                     [@[p] EXCEPT !.image = get_anger_level(w.persons[p].wait_time)]]]

\* show_arrivals(arrivals) with draws[k] the random offset of the k-th person
\* of arrivals; every floor of arrivals is a key of waiting when this is
\* reached, so the assertion of _get_y_of_floor holds
show_arrivals(arrivals, w, draws) ==
    IF ~w.sprites.visualize THEN w
    ELSE LET people == Flatten([g \in 1..Len(arrivals) |-> arrivals[g].people])
             floors == Flatten([g \in 1..Len(arrivals) |->
                           [k \in 1..Len(arrivals[g].people) |-> arrivals[g].floor]])
             last(p) == CHOOSE k \in 1..Len(people) :
                            people[k] = p /\ \A j \in (k + 1)..Len(people) : people[j] # p
             shown  == [p \in Range(people) |->
                           [bottom  |-> get_y_of_floor(w.sprites.num_floors, floors[last(p)]),
                            centerx |-> 10 + draws[last(p)],
                            image   |-> IF p \in DOMAIN w.sprites.people
                                        THEN w.sprites.people[p].image
                                        ELSE get_anger_level(0)]]
         IN [w EXCEPT !.sprites.people = shown @@ @]

show_boarding_add_passenger(person, elevator, w, draw) ==
    IF ~w.sprites.visualize THEN w
    ELSE [w EXCEPT
             !.sprites.people[person].centerx =
                 w.sprites.elevators[elevator].centerx + draw,
             !.elevators[elevator].passengers = Append(@, person),
             !.sprites.elevators[elevator].image = fullness(w.elevators[elevator])]

\* show_boarding(person, elevator) with draw the random offset; the person
\* ends on target_x in the last frame
show_boarding(person, elevator, w, draw) ==
    IF ~w.sprites.visualize THEN w
    ELSE [w EXCEPT
             !.sprites.people[person].centerx =
                 w.sprites.elevators[elevator].centerx + draw,
             !.sprites.elevators[elevator].image = fullness(w.elevators[elevator])]

show_disembarking(person, elevator, w) ==
    IF ~w.sprites.visualize THEN w
    ELSE [w EXCEPT
             !.sprites.elevators[elevator].image = fullness(w.elevators[elevator]),
             !.sprites.people[person].centerx = WIDTH - 10]

\* The 20 frames of one direction
Step(direction) ==
    IF direction = "UP" THEN -(20 * (FLOOR_HEIGHT \div 20))
    ELSE IF direction = "DOWN" THEN 20 * (FLOOR_HEIGHT \div 20)
    ELSE 0

show_elevator_moves(directions, w) ==
    IF ~w.sprites.visualize THEN w
    ELSE [w EXCEPT
             !.sprites.elevators =
                 [k \in 1..Len(@) |-> [@[k] EXCEPT !.bottom = @ + Step(directions[k])]],
             !.sprites.people =
                 [p \in DOMAIN @ |->
                     [@[p] EXCEPT !.bottom = @ + SumOf(
                         [k \in 1..Len(w.elevators) |->
                             Occurrences(w.elevators[k].passengers, p)
                                 * Step(directions[k])])]]]

\* wait_for_exit returns once the window is closed
wait_for_exit(w) ==
    IF ~w.sprites.visualize THEN w
    ELSE [w EXCEPT !.sprites.open = FALSE]

\* The offsets drawn while showing n people; random is only reached when
\* visualizing
Draws(n) ==
    IF sprites.visualize THEN [1..n -> randint(-3, 3)] ELSE {[k \in 1..n |-> 0]}

CalculateStatsRounded(n, total, reached, ps) ==
    LET wait_times == [k \in 1..Len(reached) |-> ps[reached[k]].wait_time]
    IN [num_rounds       |-> n,
        total_people     |-> Len(total),
        people_completed |-> Len(reached),
        max_time         |-> IF Len(reached) = 0 THEN -1 ELSE MaxOf(wait_times),
        avg_time         |-> IF Len(reached) = 0 THEN -1
                             ELSE (2 * SumOf(wait_times) + Len(wait_times))
                                      \div (2 * Len(wait_times))]

CalculateStatsLoopIndex(n, total, reached, ps) ==
    LET wait_times == [k \in 1..Len(reached) |-> ps[reached[k]].wait_time]
    IN [num_rounds       |-> n - 1,
        total_people     |-> Len(total),
        people_completed |-> Len(reached),
        max_time         |-> IF Len(reached) = 0 THEN -1 ELSE MaxOf(wait_times),
        avg_time         |-> IF Len(reached) = 0 THEN -1
                             ELSE SumOf(wait_times) \div Len(wait_times)]

CalculateStats(n, total, reached, ps) ==
    LET wait_times == [k \in 1..Len(reached) |-> ps[reached[k]].wait_time]
    IN [num_rounds       |-> n,
        total_people     |-> Len(total),
        people_completed |-> Len(reached),
        max_time         |-> IF Len(reached) = 0 THEN -1 ELSE MaxOf(wait_times),
        avg_time         |-> IF Len(reached) = 0 THEN -1
                             ELSE SumOf(wait_times) \div Len(wait_times)]

\* ---------------------------------------------------------------- inputs
\* The (start, target) pairs an arrivals file may hold when its floors are
\* taken from F
Entries(F) ==
    {[round |-> r, start |-> a, target |-> b] :
        r \in 0..(MaxRounds - 1), a \in F, b \in F}

\* Arrival files of at most n people over the floors F, rows by round number
Files(F, n) ==
    {file \in SeqUpTo(Entries(F), n) :
        \A k \in 1..(Len(file) - 1) : file[k].round <= file[k + 1].round}

ValidFloors(num_floors) == 1..num_floors

ValidFiles(num_floors) ==
    {file \in Files(ValidFloors(num_floors), MaxPeople) :
        \A k \in 1..Len(file) : file[k].start # file[k].target}

Configs ==
    [num_floors        : 1..MaxFloors,
     num_elevators     : 0..MaxElevators,
     elevator_capacity : 0..MaxCapacity,
     arrival_generator : {"SingleArrivals", "FileArrivals"},
     moving_algorithm  : {"EndToEndLoop", "FurthestFloor"},
     max_floor         : 1..(MaxFloors + 1),
     visualize         : BOOLEAN]

\* The state before anything is constructed, for the inputs c and file
Start(c, file) ==
    /\ pc = "new"
    /\ err = ""
    /\ config = c
    /\ csv = file
    /\ persons = <<>>
    /\ arrival_data = <<>>
    /\ elevators = <<>>
    /\ waiting = <<>>
    /\ total_people = <<>>
    /\ reached_dest = <<>>
    /\ num_rounds = 0
    /\ i = 0
    /\ calls = 0
    /\ be = 1
    /\ bi = 1
    /\ boarded = <<>>
    /\ stats = <<>>
    /\ log = <<>>
    /\ gen_log = <<>>
    /\ ticks = 0
    /\ my_arrivals = <<>>
    /\ old_elevators = <<>>
    /\ sprites = <<>>
    /\ headless = <<>>
    /\ at_boarding = <<>>

\* Generators built for the building (max_floor = num_floors, as in
\* get_example_config and run_example_simulation) and arrival files whose
\* people satisfy the Person contract and stay within the building; no
\* window, as in get_example_config.
Init ==
    \E c \in Configs :
        /\ ~c.visualize
        /\ c.max_floor = (IF c.num_floors < 2 THEN 2 ELSE c.num_floors)
        /\ \E file \in (IF c.arrival_generator = "FileArrivals"
                        THEN ValidFiles(c.num_floors) ELSE {<<>>}) :
               Start(c, file)

\* What the claims call the simulation state
SimulationState ==
    [elevators |-> elevators, persons |-> persons, waiting |-> waiting,
     reached_dest |-> reached_dest, total_people |-> total_people,
     stats |-> stats]

\* The handler leaves the objects as in w
Becomes(w) ==
    /\ persons' = w.persons
    /\ elevators' = w.elevators
    /\ reached_dest' = w.reached_dest
    /\ sprites' = w.sprites

\* The simulation the handler leaves when its objects end as in w instead
Instead(w) ==
    [SimulationState' EXCEPT !.persons = w.persons, !.elevators = w.elevators,
                             !.reached_dest = w.reached_dest]

Raise(e) ==
    /\ pc' = "raised"
    /\ err' = e

\* ---------------------------------------------------------- construction
SingleArrivals_init ==
    /\ pc = "new"
    /\ config.arrival_generator = "SingleArrivals"
    /\ IF ArrivalGeneratorContract(config.max_floor)
       THEN pc' = "generator" /\ err' = err
       ELSE Raise("ArrivalGenerator.__init__")
    /\ UNCHANGED <<at_boarding, my_arrivals, old_elevators, sprites, headless>>
    /\ UNCHANGED <<config, csv, persons, arrival_data, elevators, waiting,
                   total_people, reached_dest, num_rounds, i, calls, be, bi,
                   boarded, stats, log, gen_log, ticks>>

FileArrivals_init ==
    /\ pc = "new"
    /\ config.arrival_generator = "FileArrivals"
    /\ IF ~ArrivalGeneratorContract(config.max_floor)
       THEN Raise("ArrivalGenerator.__init__") /\ UNCHANGED <<persons, arrival_data>>
       ELSE IF \E k \in 1..Len(csv) : ~PersonContract(csv[k].start, csv[k].target)
            THEN Raise("Person.__init__") /\ UNCHANGED <<persons, arrival_data>>
            ELSE /\ pc' = "generator"
                 /\ err' = err
                 /\ persons' = FilePeople(csv)
                 /\ arrival_data' = FileArrivalData(csv)
    /\ UNCHANGED <<at_boarding, my_arrivals, old_elevators, sprites, headless>>
    /\ UNCHANGED <<config, csv, elevators, waiting, total_people, reached_dest,
                   num_rounds, i, calls, be, bi, boarded, stats, log, gen_log,
                   ticks>>

Simulation_init ==
    /\ pc = "generator"
    /\ IF SimulationContract(config)
       THEN /\ pc' = "ready"
            /\ err' = err
            /\ elevators' = [k \in 1..config.num_elevators |->
                                Elevator(config.elevator_capacity)]
            /\ waiting' = [floor \in 1..config.num_floors |-> <<>>]
            /\ sprites' = Visualizer_init(elevators', config.num_floors,
                                          config.visualize)
       ELSE /\ Raise("Simulation.__init__")
            /\ UNCHANGED <<elevators, waiting, sprites>>
    /\ total_people' = <<>>
    /\ reached_dest' = <<>>
    /\ UNCHANGED <<at_boarding, my_arrivals, old_elevators>>
    /\ UNCHANGED <<config, csv, persons, arrival_data, num_rounds, i, calls,
                   be, bi, boarded, stats, log, gen_log, ticks>>
    /\ headless' = SimulationState'

\* -------------------------------------------------------------------- run
\* Entry of run(n): the precondition num_rounds >= 1, then the first round
Call(n) ==
    /\ calls' = calls + 1
    /\ num_rounds' = n
    /\ i' = 0
    /\ log' = <<>>
    /\ gen_log' = <<>>
    /\ ticks' = 0
    /\ IF n >= 1
       THEN pc' = StageOrder[1] /\ err' = err
       ELSE Raise("Simulation.run")
    /\ UNCHANGED <<at_boarding, my_arrivals, old_elevators, sprites, headless>>
    /\ UNCHANGED <<config, csv, persons, arrival_data, elevators, waiting,
                   total_people, reached_dest, be, bi, boarded, stats>>

run ==
    /\ pc = "ready"
    /\ \E n \in 0..MaxRounds : Call(n)

\* A stage of the loop body has finished: the next statement of run
Advance(stage) ==
    /\ log' = (IF Len(log) = Len(StageOrder) THEN <<stage>> ELSE Append(log, stage))
    /\ IF stage # "tick"
       THEN pc' = StageAfter(stage) /\ i' = i
       ELSE IF i + 1 < num_rounds
            THEN pc' = StageOrder[1] /\ i' = i + 1
            ELSE pc' = "stats" /\ i' = i

\* The second loop of handle_disembarking for elevator k
RECURSIVE RemoveAndShow(_, _, _)
RemoveAndShow(w, k, temp) ==
    IF temp = <<>>
    THEN w
    ELSE RemoveAndShow(
             show_disembarking(temp[1], k,
                 [w EXCEPT !.elevators[k].passengers = RemoveFirst(@, temp[1])]),
             k, Tail(temp))

\* The people list.remove takes out of s from position j on when it is
\* called inside the loop over s itself
RECURSIVE LeftWhileIterating(_, _, _, _)
LeftWhileIterating(s, j, floor, ps) ==
    IF j > Len(s)
    THEN <<>>
    ELSE IF ps[s[j]].target = floor
         THEN <<s[j]>> \o LeftWhileIterating(RemoveFirst(s, s[j]), j + 1, floor, ps)
         ELSE LeftWhileIterating(s, j + 1, floor, ps)

RECURSIVE DisembarkWhileIterating(_, _)
DisembarkWhileIterating(w, k) ==
    IF k > Len(w.elevators)
    THEN w
    ELSE LET temp == LeftWhileIterating(w.elevators[k].passengers, 1,
                                        w.elevators[k].current_floor, w.persons)
         IN DisembarkWhileIterating(
                RemoveAndShow([w EXCEPT !.reached_dest = @ \o temp], k, temp),
                k + 1)

RECURSIVE DisembarkForgetting(_, _)
DisembarkForgetting(w, k) ==
    IF k > Len(w.elevators)
    THEN w
    ELSE LET temp == Leaving(w.elevators[k], w.persons)
         IN DisembarkForgetting(
                RemoveAndShow([w EXCEPT !.reached_dest = temp], k, temp), k + 1)

\* The loop of handle_disembarking from elevator k on
RECURSIVE Disembark(_, _)
Disembark(w, k) ==
    IF k > Len(w.elevators)
    THEN w
    ELSE LET temp == Leaving(w.elevators[k], w.persons)
         IN Disembark(RemoveAndShow([w EXCEPT !.reached_dest = @ \o temp], k, temp),
                      k + 1)

\* render_header(i) and stage 1 of the round
handle_disembarking ==
    /\ pc = "disembark"
    /\ Becomes(Disembark(render_header(i, World), 1))
    /\ Advance("disembark")
    /\ UNCHANGED <<at_boarding, my_arrivals, old_elevators>>
    /\ UNCHANGED <<err, config, csv, arrival_data, waiting,
                   total_people, num_rounds, calls, be, bi, boarded, stats,
                   gen_log, ticks>>
    /\ headless' = Instead(Disembark(render_header(i, Headless(World)), 1))

GenerateForgetful(round_num) ==
    IF config.arrival_generator = "SingleArrivals"
    THEN [persons      |-> Append(persons,
                               Person(1, SingleTarget(round_num, config.max_floor))),
          arrival_data |-> arrival_data,
          groups       |-> <<[floor |-> 1, people |-> <<Len(persons) + 1>>]>>]
    ELSE LET data == IF round_num \in DOMAIN arrival_data
                     THEN arrival_data
                     ELSE (round_num :> <<>>)
         IN [persons      |-> persons,
             arrival_data |-> data,
             groups       |-> GroupByStart(data[round_num], persons)]

\* generate(round_num) of the configured generator: the groups of dic in key
\* order, with the Person objects and the arrival_data it leaves behind
Generate(round_num) ==
    IF config.arrival_generator = "SingleArrivals"
    THEN [persons      |-> Append(persons,
                               Person(1, SingleTarget(round_num, config.max_floor))),
          arrival_data |-> arrival_data,
          groups       |-> <<[floor |-> 1, people |-> <<Len(persons) + 1>>]>>]
    ELSE LET data == IF round_num \in DOMAIN arrival_data
                     THEN arrival_data
                     ELSE arrival_data @@ (round_num :> <<>>)
         IN [persons      |-> persons,
             arrival_data |-> data,
             groups       |-> GroupByStart(data[round_num], persons)]

RECURSIVE AdmitInFront(_, _, _)
AdmitInFront(groups, w, total) ==
    IF groups = <<>>
    THEN [waiting |-> w, total_people |-> total, ok |-> TRUE]
    ELSE IF groups[1].floor \notin DOMAIN w
         THEN [waiting |-> w, total_people |-> total, ok |-> FALSE]
         ELSE AdmitInFront(Tail(groups),
                           [w EXCEPT ![groups[1].floor] = groups[1].people \o @],
                           total \o groups[1].people)

\* The loop of generate_arrivals over the keys of my_arrivals; waiting[key]
\* of a key that is no floor of the building raises KeyError and leaves the
\* earlier groups admitted
RECURSIVE Admit(_, _, _)
Admit(groups, w, total) ==
    IF groups = <<>>
    THEN [waiting |-> w, total_people |-> total, ok |-> TRUE]
    ELSE IF groups[1].floor \notin DOMAIN w
         THEN [waiting |-> w, total_people |-> total, ok |-> FALSE]
         ELSE Admit(Tail(groups),
                    [w EXCEPT ![groups[1].floor] = @ \o groups[1].people],
                    total \o groups[1].people)

generate_arrivals ==
    /\ pc = "arrivals"
    /\ LET generated == Generate(i)
           admitted  == Admit(generated.groups, waiting, total_people)
           arrived   == [World EXCEPT !.persons = generated.persons]
       IN /\ arrival_data' = generated.arrival_data
          /\ my_arrivals' = generated.groups
          /\ UNCHANGED <<at_boarding, old_elevators>>
          /\ gen_log' = Append(gen_log, i)
          /\ waiting' = admitted.waiting
          /\ total_people' = admitted.total_people
          /\ UNCHANGED <<config, csv, num_rounds, calls, be, bi, boarded, stats,
                         ticks>>
          /\ IF admitted.ok
             THEN /\ Advance("arrivals") /\ err' = err
                  /\ \E draws \in Draws(Len(Flatten(
                            [g \in 1..Len(generated.groups) |->
                                generated.groups[g].people]))) :
                         Becomes(show_arrivals(generated.groups, arrived, draws))
                  /\ headless' = Instead(show_arrivals(generated.groups,
                                     Headless(arrived),
                                     [k \in 1..0 |-> 0]))
             ELSE /\ Raise("KeyError") /\ UNCHANGED <<log, i>>
                  /\ Becomes(arrived)
                  /\ headless' = SimulationState'

\* handle_boarding is entered with elevator 1 and the head of its list
Found ==
    IF be = 1 /\ bi = 1
    THEN [elevators |-> elevators, waiting |-> waiting]
    ELSE at_boarding

handle_boarding_scan_until_refused ==
    /\ pc = "board"
    /\ at_boarding' = Found
    /\ UNCHANGED <<my_arrivals, old_elevators>>
    /\ UNCHANGED <<pc, err, config, csv, arrival_data, waiting,
                   total_people, num_rounds, i, calls, be, stats,
                   log, gen_log, ticks>>
    /\ LET e   == elevators[be]
           key == e.current_floor
       IN /\ key \in DOMAIN waiting
          /\ bi <= Len(waiting[key])
          /\ LET p     == waiting[key][bi]
                 aboard == [World EXCEPT !.elevators[be].passengers = Append(@, p)]
             IN IF CanBoard(key, persons[p], e) /\ HasRoom(e)
                THEN /\ \E draw \in Draws(1) :
                            Becomes(show_boarding(p, be, aboard, draw[1]))
                     /\ boarded' = Append(boarded, p)
                     /\ bi' = bi + 1
                     /\ headless' = Instead(show_boarding(p, be, Headless(aboard), 0))
                ELSE /\ UNCHANGED <<persons, elevators, reached_dest, sprites,
                                    boarded>>
                     /\ bi' = Len(waiting[key]) + 1
                     /\ headless' = SimulationState'

\* handle_boarding, one person of the scan of waiting[key] by elevator be
handle_boarding_scan ==
    /\ pc = "board"
    /\ at_boarding' = Found
    /\ bi' = bi + 1
    /\ UNCHANGED <<my_arrivals, old_elevators>>
    /\ UNCHANGED <<pc, err, config, csv, arrival_data, waiting,
                   total_people, num_rounds, i, calls, be, stats,
                   log, gen_log, ticks>>
    /\ LET e   == elevators[be]
           key == e.current_floor
       IN /\ key \in DOMAIN waiting
          /\ bi <= Len(waiting[key])
          /\ LET p     == waiting[key][bi]
                 aboard == [World EXCEPT !.elevators[be].passengers = Append(@, p)]
             IN IF CanBoard(key, persons[p], e) /\ HasRoom(e)
                THEN /\ \E draw \in Draws(1) :
                            Becomes(show_boarding(p, be, aboard, draw[1]))
                     /\ boarded' = Append(boarded, p)
                     /\ headless' = Instead(show_boarding(p, be, Headless(aboard), 0))
                ELSE /\ UNCHANGED <<persons, elevators, reached_dest, sprites,
                                    boarded>>
                     /\ headless' = SimulationState'

handle_boarding_remove_after_loop ==
    /\ pc = "board"
    /\ at_boarding' = Found
    /\ LET key == elevators[be].current_floor
       IN IF key \in DOMAIN waiting
          THEN /\ bi > Len(waiting[key])
               /\ waiting' = IF be < Len(elevators) THEN waiting
                             ELSE [waiting EXCEPT ![key] = RemoveAll(@, boarded)]
          ELSE waiting' = waiting
    /\ boarded' = <<>>
    /\ bi' = 1
    /\ IF be < Len(elevators)
       THEN be' = be + 1 /\ UNCHANGED <<pc, log, i>>
       ELSE be' = 1 /\ Advance("board")
    /\ UNCHANGED <<my_arrivals, old_elevators, sprites>>
    /\ UNCHANGED <<err, config, csv, persons, arrival_data, elevators,
                   total_people, reached_dest, num_rounds, calls, stats,
                   gen_log, ticks>>
    /\ headless' = SimulationState'

\* handle_boarding, end of the scan of elevator be: the people it boarded
\* leave waiting[key]; after the last elevator the stage is over
handle_boarding_remove ==
    /\ pc = "board"
    /\ at_boarding' = Found
    /\ LET key == elevators[be].current_floor
       IN IF key \in DOMAIN waiting
          THEN /\ bi > Len(waiting[key])
               /\ waiting' = [waiting EXCEPT ![key] = RemoveAll(@, boarded)]
          ELSE waiting' = waiting
    /\ boarded' = <<>>
    /\ bi' = 1
    /\ IF be < Len(elevators)
       THEN be' = be + 1 /\ UNCHANGED <<pc, log, i>>
       ELSE be' = 1 /\ Advance("board")
    /\ UNCHANGED <<my_arrivals, old_elevators, sprites>>
    /\ UNCHANGED <<err, config, csv, persons, arrival_data, elevators,
                   total_people, reached_dest, num_rounds, calls, stats,
                   gen_log, ticks>>
    /\ headless' = SimulationState'

update_target_floors_and_move ==
    /\ pc = "retarget"
    /\ elevators' = [k \in 1..Len(elevators) |->
           MoveOne([elevators[k] EXCEPT !.target_floor =
               IF config.moving_algorithm = "EndToEndLoop"
               THEN EndToEndLoopTarget(elevators[k], config.num_floors)
               ELSE FurthestFloorTarget(elevators[k], waiting, persons)])]
    /\ Advance("retarget")
    /\ old_elevators' = elevators
    /\ UNCHANGED <<at_boarding, my_arrivals, sprites>>
    /\ UNCHANGED <<err, config, csv, persons, arrival_data, waiting,
                   total_people, reached_dest, num_rounds, calls, be, bi,
                   boarded, stats, gen_log, ticks>>
    /\ headless' = SimulationState'

\* The call of moving_algorithm.update_target_floors that opens move_elevators
update_target_floors ==
    /\ pc = "retarget"
    /\ elevators' = [k \in 1..Len(elevators) |->
           [elevators[k] EXCEPT !.target_floor =
               IF config.moving_algorithm = "EndToEndLoop"
               THEN EndToEndLoopTarget(elevators[k], config.num_floors)
               ELSE FurthestFloorTarget(elevators[k], waiting, persons)]]
    /\ Advance("retarget")
    /\ old_elevators' = elevators
    /\ UNCHANGED <<at_boarding, my_arrivals, sprites>>
    /\ UNCHANGED <<err, config, csv, persons, arrival_data, waiting,
                   total_people, reached_dest, num_rounds, calls, be, bi,
                   boarded, stats, gen_log, ticks>>
    /\ headless' = SimulationState'

\* The loop of move_elevators
move_elevators ==
    /\ pc = "move"
    /\ Advance("move")
    /\ UNCHANGED <<at_boarding, my_arrivals, old_elevators>>
    /\ UNCHANGED <<err, config, csv, arrival_data, waiting,
                   total_people, num_rounds, calls, be, bi,
                   boarded, stats, gen_log, ticks>>
    /\ LET directions == [k \in 1..Len(elevators) |-> DirectionOf(elevators[k])]
           moved == [World EXCEPT
                        !.elevators = [k \in 1..Len(elevators) |-> MoveOne(elevators[k])]]
       IN /\ Becomes(show_elevator_moves(directions, moved))
          /\ headless' = Instead(show_elevator_moves(directions, Headless(moved)))

update_wait_times_of_everyone ==
    /\ pc = "tick"
    /\ persons' = [p \in 1..Len(persons) |->
           [persons[p] EXCEPT !.wait_time =
               @ + Occurrences(total_people, p)]]
    /\ ticks' = ticks + 1
    /\ Advance("tick")
    /\ UNCHANGED <<at_boarding, my_arrivals, old_elevators, sprites>>
    /\ UNCHANGED <<err, config, csv, arrival_data, elevators, waiting,
                   total_people, reached_dest, num_rounds, calls, be, bi,
                   boarded, stats, gen_log>>
    /\ headless' = SimulationState'

update_wait_times ==
    /\ pc = "tick"
    /\ persons' = [p \in 1..Len(persons) |->
           [persons[p] EXCEPT !.wait_time =
               @ + Occurrences(Travelling(elevators, waiting), p)]]
    /\ ticks' = ticks + 1
    /\ Advance("tick")
    /\ UNCHANGED <<at_boarding, my_arrivals, old_elevators, sprites>>
    /\ UNCHANGED <<err, config, csv, arrival_data, elevators, waiting,
                   total_people, reached_dest, num_rounds, calls, be, bi,
                   boarded, stats, gen_log>>
    /\ headless' = SimulationState'

\* The return statement of run
calculate_stats ==
    /\ pc = "stats"
    /\ pc' = "finished"
    /\ UNCHANGED <<at_boarding, my_arrivals, old_elevators>>
    /\ UNCHANGED <<err, config, csv, arrival_data, waiting,
                   total_people, num_rounds, i, calls, be, bi,
                   boarded, log, gen_log, ticks>>
    /\ LET closed == wait_for_exit(World)
           quiet  == wait_for_exit(Headless(World))
       IN /\ Becomes(closed)
          /\ stats' = CalculateStats(num_rounds, total_people,
                                     closed.reached_dest, closed.persons)
          /\ headless' = [Instead(quiet) EXCEPT !.stats =
                             CalculateStats(num_rounds, total_people,
                                            quiet.reached_dest, quiet.persons)]

Next ==
    \/ SingleArrivals_init
    \/ FileArrivals_init
    \/ Simulation_init
    \/ run
    \/ handle_disembarking
    \/ generate_arrivals
    \/ handle_boarding_scan
    \/ handle_boarding_remove
    \/ update_target_floors
    \/ move_elevators
    \/ update_wait_times
    \/ calculate_stats

Spec == Init /\ [][Next]_vars

\* run called again on a Simulation whose run has returned
run_again ==
    /\ pc = "finished"
    /\ calls < MaxCalls
    /\ \E n \in 0..MaxRounds : Call(n)

NextRerun == Next \/ run_again

SpecRerun == Init /\ [][NextRerun]_vars

\* Arrival files and generators that need not respect the building: floors
\* from 0 to one above the top floor, start = target allowed, max_floor free
WideFloors(num_floors) == 0..(num_floors + 1)

InitWide ==
    \E c \in Configs :
        /\ ~c.visualize
        /\ c.arrival_generator = "FileArrivals" =>
               c.max_floor = (IF c.num_floors < 2 THEN 2 ELSE c.num_floors)
        /\ c.arrival_generator = "SingleArrivals" =>
               c.max_floor <= c.num_floors + 1
        /\ \E file \in (IF c.arrival_generator = "FileArrivals"
                        THEN Files(WideFloors(c.num_floors), MaxPeople)
                        ELSE {<<>>}) :
               Start(c, file)

SpecWide == InitWide /\ [][Next]_vars

\* Simulations that pass their contracts, with the window open or not, run
\* for at most VisualRounds rounds on arrival files of at most VisualPeople
\* people
VisualRounds == 2
VisualPeople == 1

InitVisual ==
    \E c \in Configs :
        /\ SimulationContract(c)
        /\ c.max_floor = c.num_floors
        /\ \E file \in (IF c.arrival_generator = "FileArrivals"
                        THEN {f \in Files(ValidFloors(c.num_floors), VisualPeople) :
                                 \A k \in 1..Len(f) :
                                     /\ f[k].start # f[k].target
                                     /\ f[k].round < VisualRounds}
                        ELSE {<<>>}) :
               Start(c, file)

run_visual ==
    /\ pc = "ready"
    /\ \E n \in 0..VisualRounds : Call(n)

NextVisual ==
    \/ SingleArrivals_init
    \/ FileArrivals_init
    \/ Simulation_init
    \/ run_visual
    \/ handle_disembarking
    \/ generate_arrivals
    \/ handle_boarding_scan
    \/ handle_boarding_remove
    \/ update_target_floors
    \/ move_elevators
    \/ update_wait_times
    \/ calculate_stats

SpecVisual == InitVisual /\ [][NextVisual]_vars

\* ------------------------------------------------------ direct calls
\* update_target_floors called directly, as test_end_to_end_loop_floor1 and
\* test_furthest_floor_simple do: one elevator put on any floor with any
\* target floor and any passengers, and any set of floors with somebody
\* waiting.
TestFloors == 5
TestPassengers == 2

\* A start floor for a person bound for floor target
Elsewhere(target) == IF target = 1 THEN 2 ELSE 1

InitTest ==
    \E max_floor \in 2..TestFloors :
    \E algorithm \in {"EndToEndLoop", "FurthestFloor"} :
    \E current_floor \in 1..max_floor, target_floor \in 1..max_floor :
    \E targets \in SeqUpTo(1..max_floor, TestPassengers) :
    \E busy \in SUBSET (1..max_floor) :
        /\ pc = "test"
        /\ err = ""
        /\ config = [num_floors        |-> max_floor,
                     num_elevators     |-> 1,
                     elevator_capacity |-> TestPassengers,
                     arrival_generator |-> "FileArrivals",
                     moving_algorithm  |-> algorithm,
                     max_floor         |-> max_floor,
                     visualize         |-> FALSE]
        /\ csv = <<>>
        /\ persons =
               [k \in 1..Len(targets) |-> Person(Elsewhere(targets[k]), targets[k])]
                   \o [floor \in 1..max_floor |-> Person(floor, Elsewhere(floor))]
        /\ arrival_data = <<>>
        /\ elevators =
               <<[Elevator(TestPassengers) EXCEPT
                     !.current_floor = current_floor,
                     !.target_floor  = target_floor,
                     !.passengers    = [k \in 1..Len(targets) |-> k]]>>
        /\ waiting = [floor \in 1..max_floor |->
                         IF floor \in busy THEN <<Len(targets) + floor>> ELSE <<>>]
        /\ total_people = <<>>
        /\ reached_dest = <<>>
        /\ num_rounds = 0
        /\ i = 0
        /\ calls = 0
        /\ be = 1
        /\ bi = 1
        /\ boarded = <<>>
        /\ stats = <<>>
        /\ log = <<>>
        /\ gen_log = <<>>
        /\ ticks = 0
        /\ my_arrivals = <<>>
        /\ old_elevators = <<>>
        /\ sprites = <<>>
        /\ headless = <<>>
        /\ at_boarding = <<>>

test_update_target_floors ==
    /\ pc = "test"
    /\ pc' = "tested"
    /\ elevators' = [k \in 1..Len(elevators) |->
           [elevators[k] EXCEPT !.target_floor =
               IF config.moving_algorithm = "EndToEndLoop"
               THEN EndToEndLoopTarget(elevators[k], config.max_floor)
               ELSE FurthestFloorTarget(elevators[k], waiting, persons)]]
    /\ old_elevators' = elevators
    /\ UNCHANGED <<err, config, csv, persons, arrival_data, waiting,
                   total_people, reached_dest, num_rounds, i, calls, be, bi,
                   boarded, stats, log, gen_log, ticks, my_arrivals,
                   sprites, headless, at_boarding>>

\* generate called directly for the rounds 0, 1, 2, ... on a SingleArrivals
\* generator of any max_floor, as test_single_arrivals_example does
TestRounds == 7

InitTestGenerate ==
    \E max_floor \in 2..TestFloors :
        Start([num_floors        |-> max_floor,
               num_elevators     |-> 1,
               elevator_capacity |-> 1,
               arrival_generator |-> "SingleArrivals",
               moving_algorithm  |-> "EndToEndLoop",
               max_floor         |-> max_floor,
               visualize         |-> FALSE], <<>>)

test_generate ==
    /\ pc = "generator"
    /\ Len(gen_log) < TestRounds
    /\ LET generated == Generate(Len(gen_log))
       IN /\ persons' = generated.persons
          /\ arrival_data' = generated.arrival_data
          /\ my_arrivals' = generated.groups
    /\ gen_log' = Append(gen_log, Len(gen_log))
    /\ UNCHANGED <<pc, err, config, csv, elevators, waiting, total_people,
                   reached_dest, num_rounds, i, calls, be, bi, boarded, stats,
                   log, ticks, old_elevators, sprites, headless, at_boarding>>

NextTest ==
    \/ test_update_target_floors
    \/ SingleArrivals_init
    \/ test_generate

SpecTest == (InitTest \/ InitTestGenerate) /\ [][NextTest]_vars

\* ------------------------------------------------------ stages called alone
\* handle_disembarking and handle_boarding called on a simulation in the
\* middle of a round, with up to StagePeople people who arrived in the order
\* of their numbers: each is aboard one of the elevators or still waiting on
\* the floor where they started, and every list is in arrival order.
StagePeople == 3
StageFloors == 3
StageElevators == 2

\* Where a person may be and where they go. Neither handler reads the start
\* of a passenger; handle_disembarking does not read the people waiting,
\* who all wait on floor 1 for floor 2 there; handle_boarding reads only
\* the number of the passengers, and whoever was aboard at their floor
\* left in stage 1.
Kinds(stage, num_floors, current_floor) ==
    {r \in [where  : 0..Len(current_floor),
            start  : 1..num_floors,
            target : 1..num_floors] :
        /\ PersonContract(r.start, r.target)
        /\ r.where # 0 => r.start = Elsewhere(r.target)
        /\ (r.where # 0 /\ stage = "board") =>
               r.target = Elsewhere(current_floor[r.where])
        /\ (r.where = 0 /\ stage = "disembark") => (r.start = 1 /\ r.target = 2)}

\* The people that kinds puts at place, in arrival order
Placed(kinds, place, floor) ==
    SelectSeq([k \in 1..Len(kinds) |-> k],
              LAMBDA k : /\ kinds[k].where = place
                         /\ place = 0 => kinds[k].start = floor)

InitStage ==
    \E stage \in {"disembark", "board"} :
    \E num_floors \in 2..StageFloors :
    \E num_elevators \in 1..StageElevators :
    \E capacity \in (IF stage = "board" THEN 1..StagePeople ELSE {StagePeople}) :
    \E n \in 0..StagePeople :
    \E current_floor \in [1..num_elevators -> 1..num_floors] :
    \E target_floor \in [1..num_elevators -> 1..num_floors] :
    \E kinds \in [1..n -> Kinds(stage, num_floors, current_floor)] :
        LET ps == [k \in 1..n |-> Person(kinds[k].start, kinds[k].target)]
            es == [e \in 1..num_elevators |->
                      [Elevator(capacity) EXCEPT
                          !.current_floor = current_floor[e],
                          !.target_floor  = target_floor[e],
                          !.passengers    = Placed(kinds, e, 0)]]
            w  == [floor \in 1..num_floors |-> Placed(kinds, 0, floor)]
        IN /\ \A e \in 1..num_elevators : Len(es[e].passengers) <= capacity
           /\ pc = stage
           /\ err = ""
           /\ config = [num_floors        |-> num_floors,
                        num_elevators     |-> num_elevators,
                        elevator_capacity |-> capacity,
                        arrival_generator |-> "FileArrivals",
                        moving_algorithm  |-> "FurthestFloor",
                        max_floor         |-> num_floors,
                        visualize         |-> FALSE]
           /\ csv = <<>>
           /\ persons = ps
           /\ arrival_data = <<>>
           /\ elevators = es
           /\ waiting = w
           /\ total_people = [k \in 1..n |-> k]
           /\ reached_dest = <<>>
           /\ num_rounds = 1
           /\ i = 0
           /\ calls = 1
           /\ be = 1
           /\ bi = 1
           /\ boarded = <<>>
           /\ stats = <<>>
           /\ log = (IF stage = "board" THEN <<"disembark", "arrivals">> ELSE <<>>)
           /\ gen_log = (IF stage = "board" THEN <<0>> ELSE <<>>)
           /\ ticks = 0
           /\ my_arrivals = <<>>
           /\ old_elevators = <<>>
           /\ sprites = Visualizer_init(es, num_floors, FALSE)
           /\ headless = [elevators |-> es, persons |-> ps, waiting |-> w,
                          reached_dest |-> <<>>,
                          total_people |-> [k \in 1..n |-> k],
                          stats |-> <<>>]
           /\ at_boarding = <<>>

NextStage ==
    \/ handle_disembarking
    \/ handle_boarding_scan
    \/ handle_boarding_remove

SpecStage == InitStage /\ [][NextStage]_vars

\* ------------------------------------------------------ rounds without end
\* run with a number of rounds beyond every bound: the file has its people
\* arrive in the rounds 0..ForeverRounds - 1, and the loop of run never
\* reaches its end.
ForeverFloors == 4
ForeverPeople == 2
ForeverRounds == 2

\* Round numbers and wait times from ForeverRounds on are counted as
\* ForeverRounds: no round after the last one of the file has arrivals, and
\* only calculate_stats, which such a run never reaches, reads wait_time.
Capped(n) == IF n < ForeverRounds THEN n ELSE ForeverRounds

ForeverFiles(num_floors) ==
    {file \in SeqUpTo([round  : 0..(ForeverRounds - 1),
                       start  : 1..num_floors,
                       target : 1..num_floors], ForeverPeople) :
        /\ \A k \in 1..Len(file) : PersonContract(file[k].start, file[k].target)
        /\ \A k \in 1..(Len(file) - 1) : file[k].round <= file[k + 1].round}

\* The simulation as its constructors leave it, in the first round of run
InitForever(algorithm) ==
    \E num_floors \in 2..ForeverFloors :
    \E num_elevators \in 1..MaxElevators :
    \E capacity \in 1..MaxCapacity :
    \E file \in ForeverFiles(num_floors) :
        LET es == [e \in 1..num_elevators |-> Elevator(capacity)]
            w  == [floor \in 1..num_floors |-> <<>>]
        IN /\ pc = StageOrder[1]
           /\ err = ""
           /\ config = [num_floors        |-> num_floors,
                        num_elevators     |-> num_elevators,
                        elevator_capacity |-> capacity,
                        arrival_generator |-> "FileArrivals",
                        moving_algorithm  |-> algorithm,
                        max_floor         |-> num_floors,
                        visualize         |-> FALSE]
           /\ csv = file
           /\ persons = FilePeople(file)
           /\ arrival_data = FileArrivalData(file)
           /\ elevators = es
           /\ waiting = w
           /\ total_people = <<>>
           /\ reached_dest = <<>>
           /\ num_rounds = ForeverRounds
           /\ i = 0
           /\ calls = 1
           /\ be = 1
           /\ bi = 1
           /\ boarded = <<>>
           /\ stats = <<>>
           /\ log = <<>>
           /\ gen_log = <<>>
           /\ ticks = 0
           /\ my_arrivals = <<>>
           /\ old_elevators = <<>>
           /\ sprites = Visualizer_init(es, num_floors, FALSE)
           /\ headless = [elevators |-> es, persons |-> FilePeople(file),
                          waiting |-> w, reached_dest |-> <<>>,
                          total_people |-> <<>>, stats |-> <<>>]
           /\ at_boarding = <<>>

\* Stage 6 of a round that is never the last one
update_wait_times_forever ==
    /\ pc = "tick"
    /\ persons' = [p \in 1..Len(persons) |->
           [persons[p] EXCEPT !.wait_time =
               Capped(@ + Occurrences(Travelling(elevators, waiting), p))]]
    /\ ticks' = Capped(ticks + 1)
    /\ log' = Append(log, "tick")
    /\ pc' = StageOrder[1]
    /\ i' = Capped(i + 1)
    /\ gen_log' = <<>>
    /\ UNCHANGED <<at_boarding, my_arrivals, old_elevators, sprites>>
    /\ UNCHANGED <<err, config, csv, arrival_data, elevators, waiting,
                   total_people, reached_dest, num_rounds, calls, be, bi,
                   boarded, stats>>
    /\ headless' = SimulationState'

NextForever ==
    \/ handle_disembarking
    \/ generate_arrivals
    \/ handle_boarding_scan
    \/ handle_boarding_remove
    \/ update_target_floors
    \/ move_elevators
    \/ update_wait_times_forever

InitFurthestFloor == InitForever("FurthestFloor")

InitEndToEndLoop == InitForever("EndToEndLoop")

\* run is one thread of control: the statement it has reached is executed
SpecFurthestFloor ==
    InitFurthestFloor /\ [][NextForever]_vars /\ WF_vars(NextForever)

SpecEndToEndLoop ==
    InitEndToEndLoop /\ [][NextForever]_vars /\ WF_vars(NextForever)

\* ---------------------------------------------------------------- claims
Stages == Range(StageOrder)

Running == pc \in Stages \cup {"stats", "finished"}

\* The scan of handle_boarding has not started or is over
AtStageBoundary == pc # "board" \/ (be = 1 /\ bi = 1)

\* The last stage of the loop body has just finished
EndOfRound == Running /\ Len(log) = Len(StageOrder)

Holders == Travelling(elevators, waiting) \o reached_dest

NoDuplicates(s) == \A j, k \in 1..Len(s) : s[j] = s[k] => j = k

HoldsArrivedAtTarget ==
    \E k \in 1..Len(elevators) : \E m \in 1..Len(elevators[k].passengers) :
        persons[elevators[k].passengers[m]].target = elevators[k].current_floor

\* C1: at every stage boundary and when run has returned, every person of
\* total_people is held exactly once by the waiting lists, the passenger
\* lists and reached_dest together, and these hold nobody else.
C1_ExactlyOnePlace ==
    AtStageBoundary =>
        /\ NoDuplicates(total_people)
        /\ NoDuplicates(Holders)
        /\ Range(Holders) = Range(total_people)

C1_Witness ==
    /\ pc = "finished"
    /\ Len(reached_dest) >= 1
    /\ \E k \in 1..Len(elevators) : Len(elevators[k].passengers) >= 1
    /\ \E f \in DOMAIN waiting : Len(waiting[f]) >= 1

\* C2: in every state, the boarding scan included, no elevator holds more
\* passengers than its capacity.
C2_WithinCapacity ==
    \A k \in 1..Len(elevators) :
        Len(elevators[k].passengers) <= elevators[k].capacity

\* a full elevator in the middle of its scan, at a person it could take
C2_Witness ==
    /\ pc = "board"
    /\ LET e == elevators[be]
       IN /\ bi <= Len(waiting[e.current_floor])
          /\ boarded # <<>>
          /\ Len(e.passengers) = e.capacity
          /\ CanBoard(e.current_floor, persons[waiting[e.current_floor][bi]], e)

\* C3: with arrivals inside the building, current_floor and target_floor of
\* every elevator lie in 1..num_floors after every stage.
C3_FloorsInRange ==
    \A k \in 1..Len(elevators) :
        /\ elevators[k].current_floor \in 1..config.num_floors
        /\ elevators[k].target_floor \in 1..config.num_floors

C3_Witness ==
    /\ pc = "tick"
    /\ config.moving_algorithm = "FurthestFloor"
    /\ \E k \in 1..Len(elevators) :
           /\ elevators[k].current_floor = config.num_floors
           /\ elevators[k].target_floor = config.num_floors
           /\ Len(elevators[k].passengers) >= 1

IsPrefix(s, t) == Len(s) <= Len(t) /\ \A k \in 1..Len(s) : s[k] = t[k]

\* C4: run(n) executes the stages of each round in the order disembark,
\* arrivals, board, retarget, move, tick, calls generate once per round with
\* the round indices 0, 1, ..., and returns after exactly n rounds.
C4_StageOrder ==
    LET round == IF pc = StageOrder[1] THEN <<>> ELSE log
    IN Running =>
        /\ IsPrefix(log, StageOrder)
        /\ pc \in Stages =>
               pc = StageOrder[(Len(log) % Len(StageOrder)) + 1]
        /\ \A k \in 1..Len(gen_log) : gen_log[k] = k - 1
        /\ Len(gen_log) = (IF "arrivals" \in Range(round) THEN i + 1 ELSE i)
        /\ ticks = (IF "tick" \in Range(round) THEN i + 1 ELSE i)
        /\ pc = StageOrder[1] => log \in {<<>>, StageOrder}
        /\ i < num_rounds
        /\ pc \in {"stats", "finished"} =>
               /\ log = StageOrder
               /\ ticks = num_rounds
               /\ Len(gen_log) = num_rounds

C4_Witness ==
    /\ pc = "finished"
    /\ num_rounds = MaxRounds
    /\ gen_log = [k \in 1..MaxRounds |-> k - 1]

\* C5 as claimed: at the end of every round, and when run returns, no
\* elevator holds a passenger whose target is the elevator's current floor.
C5_DeliveredAtEndOfRound == EndOfRound => ~HoldsArrivedAtTarget

\* C5 as amended: from the end of the disembark stage to the move of the
\* same round no elevator holds a passenger whose target is its current
\* floor.
C5_DeliveredAfterDisembark ==
    pc \in {"arrivals", "board", "retarget", "move"} => ~HoldsArrivedAtTarget

C5_Witness ==
    /\ pc = "arrivals"
    /\ Len(reached_dest) >= 1
    /\ \E k \in 1..Len(elevators) : Len(elevators[k].passengers) >= 1

\* C6 as claimed: a second call of run is rejected with an error.
C6_SecondRunRejected == calls >= 2 => pc = "raised"

Constructed == pc \notin {"new", "generator", "raised"}

\* C7: a configuration with num_floors < 2, elevator_capacity < 1 or
\* num_elevators < 1 is rejected by the constructor of Simulation: no
\* Simulation exists for it, and the error is the constructor's.
C7_RejectedAtConstruction ==
    (\/ config.num_floors < 2
     \/ config.elevator_capacity < 1
     \/ config.num_elevators < 1) =>
        /\ ~Constructed
        /\ pc = "raised" => err = "Simulation.__init__"

C7_Witness ==
    /\ pc = "raised"
    /\ err = "Simulation.__init__"
    /\ config.num_floors >= 2
    /\ config.num_elevators >= 1
    /\ config.elevator_capacity < 1

\* C8 as claimed: nobody whose start or target floor lies outside
\* 1..num_floors is ever in a waiting list or an elevator, and no elevator is
\* on or headed for a floor outside 1..num_floors.
C8_OutOfRangeRejected ==
    /\ \A k \in 1..Len(Travelling(elevators, waiting)) :
           LET p == persons[Travelling(elevators, waiting)[k]]
           IN p.start \in 1..config.num_floors /\ p.target \in 1..config.num_floors
    /\ C3_FloorsInRange

\* C9: whenever a person boards an elevator standing at floor f, a person
\* going up does not board an elevator whose target_floor is below f and a
\* person going down does not board one whose target_floor is above f.
C9_BoardingDirection ==
    [][\A k \in 1..Len(elevators) :
          (/\ pc = "board"
           /\ Len(elevators'[k].passengers) > Len(elevators[k].passengers))
          => LET p == persons[elevators'[k].passengers[Len(elevators'[k].passengers)]]
                 f == elevators[k].current_floor
             IN /\ p.target > f => elevators[k].target_floor >= f
                /\ p.target < f => elevators[k].target_floor <= f]_vars

\* somebody has just boarded an elevator that is on its way
C9_Witness ==
    /\ pc = "board"
    /\ boarded # <<>>
    /\ elevators[be].target_floor # elevators[be].current_floor

\* The passenger target that is farthest from current_floor, the lowest one
\* among several at that distance
LowestFarthest(targets, current_floor) ==
    LET far == {t \in targets :
                   \A u \in targets : Abs(u - current_floor) <= Abs(t - current_floor)}
    IN CHOOSE t \in far : \A u \in far : t <= u

\* C10 as claimed: FurthestFloor gives an elevator with passengers the
\* farthest passenger target, the lowest one on a tie, whatever the order of
\* the passenger list.
C10_FarthestPassengerTarget ==
    (pc = "move" /\ config.moving_algorithm = "FurthestFloor") =>
        \A k \in 1..Len(elevators) :
            Len(elevators[k].passengers) # 0 =>
                elevators[k].target_floor =
                    LowestFarthest({persons[p].target : p \in Range(elevators[k].passengers)},
                                   elevators[k].current_floor)

\* The floors with somebody waiting
Busy == {floor \in DOMAIN waiting : waiting[floor] # <<>>}

\* C11: FurthestFloor gives an elevator without passengers whose target floor
\* was its current floor the floor with somebody waiting that is farthest
\* from it, the lowest such floor on a tie, and leaves the target on the
\* current floor when nobody waits anywhere.
C11_FarthestWaitingFloor ==
    (pc = "tested" /\ config.moving_algorithm = "FurthestFloor") =>
        \A k \in 1..Len(elevators) :
            (/\ Len(old_elevators[k].passengers) = 0
             /\ old_elevators[k].target_floor = old_elevators[k].current_floor)
            => elevators[k].target_floor =
                   (IF Busy = {} THEN old_elevators[k].current_floor
                    ELSE LowestFarthest(Busy, old_elevators[k].current_floor))

\* the tie of the example: elevator idle on floor 3, people on floors 1 and 5
C11_Witness ==
    /\ pc = "tested"
    /\ config.moving_algorithm = "FurthestFloor"
    /\ Len(old_elevators[1].passengers) = 0
    /\ old_elevators[1].current_floor = 3
    /\ old_elevators[1].target_floor = 3
    /\ Busy = {1, 5}
    /\ elevators[1].target_floor = 1

\* C12: FurthestFloor leaves the target floor of an elevator without
\* passengers that is on its way (target_floor # current_floor) as it was,
\* whoever is waiting.
C12_CommitmentKept ==
    (pc = "tested" /\ config.moving_algorithm = "FurthestFloor") =>
        \A k \in 1..Len(elevators) :
            (/\ Len(old_elevators[k].passengers) = 0
             /\ old_elevators[k].target_floor # old_elevators[k].current_floor)
            => elevators[k].target_floor = old_elevators[k].target_floor

\* an empty elevator on its way while the farthest waiting floor is another
C12_Witness ==
    /\ pc = "tested"
    /\ config.moving_algorithm = "FurthestFloor"
    /\ Len(old_elevators[1].passengers) = 0
    /\ old_elevators[1].target_floor # old_elevators[1].current_floor
    /\ Busy # {}
    /\ LowestFarthest(Busy, old_elevators[1].current_floor) # old_elevators[1].target_floor
    /\ elevators[1].target_floor = old_elevators[1].target_floor

\* C13: EndToEndLoop sets the target floor to max_floor on floor 1, to 1 on
\* floor max_floor and leaves it as it was on every other floor, whatever
\* the passengers and the waiting lists.
C13_EndToEndLoop ==
    (pc = "tested" /\ config.moving_algorithm = "EndToEndLoop") =>
        \A k \in 1..Len(elevators) :
            /\ old_elevators[k].current_floor = 1 =>
                   elevators[k].target_floor = config.max_floor
            /\ old_elevators[k].current_floor = config.max_floor =>
                   elevators[k].target_floor = 1
            /\ old_elevators[k].current_floor \notin {1, config.max_floor} =>
                   elevators[k].target_floor = old_elevators[k].target_floor

\* the elevator sent down from the top floor, with passengers and people
\* waiting
C13_Witness ==
    /\ pc = "tested"
    /\ config.moving_algorithm = "EndToEndLoop"
    /\ config.max_floor = 5
    /\ old_elevators[1].current_floor = 5
    /\ old_elevators[1].target_floor = 5
    /\ elevators[1].target_floor = 1
    /\ Len(elevators[1].passengers) >= 1
    /\ Busy # {}

\* C14: a call of update_target_floors changes the target floors of the
\* elevators and nothing else: current floors, passenger lists, waiting
\* lists, total_people, reached_dest and the Person objects stay as they
\* were.
C14_OnlyTargetFloors ==
    [][pc = "retarget" =>
          /\ Len(elevators') = Len(elevators)
          /\ \A k \in 1..Len(elevators) :
                 /\ elevators'[k].current_floor = elevators[k].current_floor
                 /\ elevators'[k].passengers = elevators[k].passengers
                 /\ elevators'[k].capacity = elevators[k].capacity
          /\ waiting' = waiting
          /\ total_people' = total_people
          /\ reached_dest' = reached_dest
          /\ persons' = persons]_vars

\* a call that gave a new target to an elevator with passengers while
\* people were waiting
C14_Witness ==
    /\ pc = "move"
    /\ Busy # {}
    /\ \E k \in 1..Len(elevators) :
           /\ Len(elevators[k].passengers) >= 1
           /\ elevators[k].target_floor # old_elevators[k].target_floor
           /\ elevators[k].current_floor # elevators[k].target_floor

\* C15: the k-th call of generate on SingleArrivals(max_floor), for round
\* k - 1, returns the single key 1 with one new Person of start 1 and
\* wait_time 0 whose target is ((k - 1) mod (max_floor - 1)) + 2: 2 in round
\* 0, then one more each round, back to 2 after max_floor.
C15_SingleArrivalsCycle ==
    (pc = "generator" /\ config.arrival_generator = "SingleArrivals") =>
        /\ Len(persons) = Len(gen_log)
        /\ \A k \in 1..Len(persons) :
               /\ gen_log[k] = k - 1
               /\ persons[k].start = 1
               /\ persons[k].wait_time = 0
               /\ persons[k].target \in 2..config.max_floor
               /\ persons[k].target = ((k - 1) % (config.max_floor - 1)) + 2
               /\ k = 1 => persons[k].target = 2
               /\ k > 1 => persons[k].target =
                      (IF persons[k - 1].target = config.max_floor THEN 2
                       ELSE persons[k - 1].target + 1)
        /\ gen_log # <<>> =>
               my_arrivals = <<[floor |-> 1, people |-> <<Len(persons)>>]>>

\* the example: max_floor 4, rounds 0..6, targets 2, 3, 4, 2, 3, 4, 2
C15_Witness ==
    /\ pc = "generator"
    /\ config.arrival_generator = "SingleArrivals"
    /\ config.max_floor = 4
    /\ gen_log = <<0, 1, 2, 3, 4, 5, 6>>
    /\ [k \in 1..Len(persons) |-> persons[k].target] = <<2, 3, 4, 2, 3, 4, 2>>

\* The people of all groups of a mapping returned by generate, in key order
Returned(groups) == Flatten([g \in 1..Len(groups) |-> groups[g].people])

\* C16: generate(r) of FileArrivals returns exactly the people the file
\* schedules for round r, each under the key of their start floor, the
\* people of one key in file order, and no key without people.
C16_ScheduledPeopleGrouped ==
    (Running /\ config.arrival_generator = "FileArrivals" /\ gen_log # <<>>) =>
        LET r == gen_log[Len(gen_log)]
        IN /\ Range(Returned(my_arrivals)) = {k \in 1..Len(csv) : csv[k].round = r}
           /\ NoDuplicates(Returned(my_arrivals))
           /\ \A k \in Range(Returned(my_arrivals)) :
                  /\ persons[k].start = csv[k].start
                  /\ persons[k].target = csv[k].target
           /\ \A g \in 1..Len(my_arrivals) :
                  /\ my_arrivals[g].people # <<>>
                  /\ \A m \in 1..Len(my_arrivals[g].people) :
                         persons[my_arrivals[g].people[m]].start = my_arrivals[g].floor
                  /\ \A m \in 1..(Len(my_arrivals[g].people) - 1) :
                         my_arrivals[g].people[m] < my_arrivals[g].people[m + 1]
           /\ \A g, h \in 1..Len(my_arrivals) :
                  my_arrivals[g].floor = my_arrivals[h].floor => g = h

\* two people of one round and one floor, returned under that floor
C16_Witness ==
    /\ pc = "board"
    /\ config.arrival_generator = "FileArrivals"
    /\ Len(my_arrivals) = 1
    /\ Len(my_arrivals[1].people) = 2
    /\ persons[my_arrivals[1].people[1]].target # persons[my_arrivals[1].people[2]].target

\* C17: generate(r) of FileArrivals for a round without entry in the file
\* returns an empty mapping and raises nothing, the entries of the other
\* rounds stay as they were, and the arrivals stage of such a round leaves
\* waiting and total_people as they were.
C17_UnknownRoundIsEmpty ==
    [][(/\ pc = "arrivals"
        /\ config.arrival_generator = "FileArrivals"
        /\ \A k \in 1..Len(csv) : csv[k].round # i)
       => /\ my_arrivals' = <<>>
          /\ pc' # "raised"
          /\ err' = err
          /\ \A r \in DOMAIN arrival_data :
                 r \in DOMAIN arrival_data' /\ arrival_data'[r] = arrival_data[r]
          /\ persons' = persons
          /\ waiting' = waiting
          /\ total_people' = total_people]_vars

\* a round without entry has passed while people wait and a later round
\* still has its people
C17_Witness ==
    /\ pc = "board"
    /\ config.arrival_generator = "FileArrivals"
    /\ my_arrivals = <<>>
    /\ \A k \in 1..Len(csv) : csv[k].round # i
    /\ Busy # {}
    /\ \E r \in DOMAIN arrival_data : r > i /\ arrival_data[r] # <<>>

\* The number of people the generator hands out in the rounds 0..n-1
Arrived(n) ==
    IF config.arrival_generator = "SingleArrivals" THEN n
    ELSE Cardinality({k \in 1..Len(csv) : csv[k].round < n})

CompletedWaits == [k \in 1..Len(reached_dest) |-> persons[reached_dest[k]].wait_time]

\* C18: the statistics returned by run count the people that arrived and the
\* people in reached_dest, give the largest wait_time of the latter and their
\* mean wait_time cut to an integer, and give -1 for both exactly when nobody
\* is in reached_dest.
C18_Statistics ==
    pc = "finished" =>
        /\ stats.total_people = Arrived(num_rounds)
        /\ stats.people_completed = Cardinality(Range(reached_dest))
        /\ stats.people_completed = 0 <=> stats.max_time = -1
        /\ stats.people_completed = 0 <=> stats.avg_time = -1
        /\ stats.people_completed > 0 =>
               /\ stats.max_time \in Range(CompletedWaits)
               /\ \A k \in 1..Len(CompletedWaits) : CompletedWaits[k] <= stats.max_time
               /\ stats.avg_time * stats.people_completed <= SumOf(CompletedWaits)
               /\ SumOf(CompletedWaits) < (stats.avg_time + 1) * stats.people_completed

\* a run whose completed people have a mean wait that is no integer, with
\* somebody who arrived and did not complete
C18_Witness ==
    /\ pc = "finished"
    /\ Len(reached_dest) >= 2
    /\ (2 * SumOf(CompletedWaits)) % (2 * Len(reached_dest)) = Len(reached_dest)
    /\ stats.total_people > stats.people_completed

\* C19: run(n) returns a mapping with exactly the keys num_rounds,
\* total_people, people_completed, max_time and avg_time, and its num_rounds
\* is n.
C19_StatisticsShape ==
    pc = "finished" =>
        /\ DOMAIN stats = {"num_rounds", "total_people", "people_completed",
                           "max_time", "avg_time"}
        /\ stats.num_rounds = num_rounds
        /\ stats.num_rounds = ticks
        /\ \A key \in DOMAIN stats : stats[key] \in Int

C19_Witness ==
    /\ pc = "finished"
    /\ num_rounds = MaxRounds
    /\ ticks = MaxRounds
    /\ config.arrival_generator = "SingleArrivals"
    /\ config.moving_algorithm = "EndToEndLoop"
    /\ config.num_floors = MaxFloors
    /\ config.num_elevators = 2
    /\ config.elevator_capacity = 2

\* C20: with the window open every handler leaves the elevators (floors,
\* targets, passenger lists), the waiting lists, reached_dest, total_people,
\* the wait_times and the statistics exactly as it leaves them from the same
\* state when the Visualizer does nothing.
C20_VisualizerLeavesSimulation ==
    (Constructed /\ config.visualize) => SimulationState = headless

\* a run with the window open that showed arrivals, boardings, moves and a
\* disembarking, and returned its statistics after the window was closed
C20_Witness ==
    /\ pc = "finished"
    /\ config.visualize
    /\ ~sprites.open
    /\ stats.people_completed >= 1
    /\ \E p \in DOMAIN sprites.people : sprites.people[p].centerx = WIDTH - 10
    /\ \E p \in DOMAIN sprites.people :
           sprites.people[p].centerx
               \in {sprites.elevators[k].centerx + d :
                        k \in 1..Len(elevators), d \in randint(-3, 3)}
    /\ \E k \in 1..Len(elevators) :
           sprites.elevators[k].bottom
               # total_height(config.num_floors) - FLOOR_BORDER_HEIGHT

\* The passengers of e bound for the floor where e stands
AtTheirFloor(e) ==
    SelectSeq(e.passengers, LAMBDA p : persons[p].target = e.current_floor)

\* C21: handle_disembarking removes from every elevator exactly the
\* passengers whose target is the elevator's current_floor and appends them
\* to reached_dest; afterwards no elevator holds a passenger bound for the
\* floor where it stands, the passengers that remain keep their order, and
\* waiting and the floors and targets of the elevators are unchanged.
C21_DisembarkStage ==
    [][pc = "disembark" =>
        /\ \A e \in 1..Len(elevators) :
               /\ elevators'[e].passengers =
                      SelectSeq(elevators[e].passengers,
                          LAMBDA p : persons[p].target # elevators[e].current_floor)
               /\ elevators'[e].current_floor = elevators[e].current_floor
               /\ elevators'[e].target_floor = elevators[e].target_floor
               /\ \A k \in 1..Len(elevators'[e].passengers) :
                      persons'[elevators'[e].passengers[k]].target
                          # elevators'[e].current_floor
        /\ Len(elevators') = Len(elevators)
        /\ IsPrefix(reached_dest, reached_dest')
        /\ \A p \in 1..Len(persons) :
               Occurrences(reached_dest', p) = Occurrences(reached_dest, p)
                   + SumOf([e \in 1..Len(elevators) |->
                               Occurrences(AtTheirFloor(elevators[e]), p)])
        /\ waiting' = waiting]_vars

\* handle_disembarking took the second of three passengers out of an
\* elevator and left the first and the third
C21_Witness ==
    /\ pc = "arrivals"
    /\ Len(elevators) = 1
    /\ elevators[1].passengers = <<1, 3>>
    /\ reached_dest = <<2>>

\* Person p on floor f and an elevator bound for target_floor go the same way
SameWay(p, f, target_floor) ==
    \/ (p.target < f /\ target_floor <= f)
    \/ (p.target > f /\ target_floor >= f)

\* The people of the first n entries of list that are in taken
TakenOf(list, n, taken) ==
    SelectSeq(SubSeq(list, 1, n), LAMBDA p : p \in Range(taken))

\* C22: while elevator be scans the waiting list of its floor, a person of
\* the list boards exactly when they go the elevator's way and the elevator
\* has room at the moment they are considered, so the people boarded are
\* taken in the order of the list, everybody ahead of a person who boards
\* and going the elevator's way boards too, and when the scan is over the
\* people left waiting keep their order.
C22_ScanInListOrder ==
    [][(pc = "board" /\ elevators[be].current_floor \in DOMAIN waiting) =>
        LET e       == elevators[be]
            f       == e.current_floor
            list    == waiting[f]
            scanned == IF bi > Len(list) THEN Len(list) ELSE bi - 1
            before  == Len(e.passengers) - Len(boarded)
        IN /\ \A j \in 1..scanned :
                  list[j] \in Range(boarded) <=>
                      /\ SameWay(persons[list[j]], f, e.target_floor)
                      /\ before + Len(TakenOf(list, j - 1, boarded)) < e.capacity
           /\ \A j \in 1..scanned : \A m \in 1..(j - 1) :
                  (/\ list[j] \in Range(boarded)
                   /\ SameWay(persons[list[m]], f, e.target_floor))
                  => list[m] \in Range(boarded)
           /\ boarded = TakenOf(list, scanned, boarded)
           /\ SubSeq(e.passengers, before + 1, Len(e.passengers)) = boarded
           /\ bi > Len(list) =>
                  waiting'[f] = SelectSeq(list, LAMBDA p : p \notin Range(boarded))]_vars

\* the scan of three people is over: the first goes the other way, the
\* second has boarded and filled the elevator, the third goes the
\* elevator's way and stays behind
C22_Witness ==
    /\ pc = "board"
    /\ elevators[be].current_floor \in DOMAIN waiting
    /\ LET e    == elevators[be]
           list == waiting[e.current_floor]
       IN /\ Len(list) = 3
          /\ bi > Len(list)
          /\ boarded = <<list[2]>>
          /\ ~SameWay(persons[list[1]], e.current_floor, e.target_floor)
          /\ SameWay(persons[list[3]], e.current_floor, e.target_floor)
          /\ Len(e.passengers) = e.capacity

\* The people elevator e took aboard in the boarding stage that has ended
New(e) ==
    SubSeq(elevators[e].passengers, Len(at_boarding.elevators[e].passengers) + 1,
           Len(elevators[e].passengers))

\* How often p is aboard the elevators es or in the waiting lists w
Places(es, w, p) ==
    SumOf([e \in 1..Len(es) |-> Occurrences(es[e].passengers, p)])
        + SumOf([f \in 1..Cardinality(DOMAIN w) |-> Occurrences(w[f], p)])

\* C23: when handle_boarding has returned, every elevator e has taken, of
\* the people who waited on its floor and whom no elevator before e in the
\* list had taken, those going its way, front to back, as long as it had
\* room; so a person the earlier elevator left for want of room is aboard
\* the next elevator on the floor that goes their way and has room when
\* their turn comes, nobody is aboard two elevators or aboard and waiting,
\* and the people not taken wait in the order they had.
C23_ElevatorsInListOrder ==
    pc = "retarget" =>
        /\ \A e \in 1..Len(elevators) :
               LET was  == at_boarding.elevators[e]
                   f    == was.current_floor
                   list == at_boarding.waiting[f]
               IN /\ SubSeq(elevators[e].passengers, 1, Len(was.passengers))
                         = was.passengers
                  /\ New(e) = SelectSeq(list, LAMBDA p : p \in Range(New(e)))
                  /\ \A j \in 1..Len(list) :
                         list[j] \in Range(New(e)) <=>
                             /\ \A k \in 1..(e - 1) : list[j] \notin Range(New(k))
                             /\ SameWay(persons[list[j]], f, was.target_floor)
                             /\ Len(was.passengers) + Len(TakenOf(list, j - 1, New(e)))
                                    < was.capacity
        /\ \A f \in DOMAIN waiting :
               waiting[f] = SelectSeq(at_boarding.waiting[f],
                                LAMBDA p : \A e \in 1..Len(elevators) :
                                               p \notin Range(New(e)))
        /\ \A p \in 1..Len(persons) :
               Places(elevators, waiting, p)
                   = Places(at_boarding.elevators, at_boarding.waiting, p)

\* two empty elevators for one person each stood on a floor where three
\* people going their way waited: the first took the first, the second the
\* second, the third still waits
C23_Witness ==
    /\ pc = "retarget"
    /\ Len(elevators) = 2
    /\ elevators[1].current_floor = elevators[2].current_floor
    /\ LET f    == elevators[1].current_floor
           list == at_boarding.waiting[f]
       IN /\ Len(list) = 3
          /\ \A j \in 1..3 : \A e \in 1..2 :
                 SameWay(persons[list[j]], f, elevators[e].target_floor)
          /\ elevators[1].passengers = <<list[1]>>
          /\ elevators[2].passengers = <<list[2]>>
          /\ waiting[f] = <<list[3]>>

\* C24: in handle_boarding a person waiting on floor f for another floor,
\* above or below, boards the elevator scanning f when that elevator has
\* target_floor = f and fewer passengers than its capacity at that moment.
C24_IdleElevatorAdmitsBoth ==
    [][(/\ pc = "board"
        /\ elevators[be].current_floor \in DOMAIN waiting
        /\ bi <= Len(waiting[elevators[be].current_floor])
        /\ elevators[be].target_floor = elevators[be].current_floor
        /\ Len(elevators[be].passengers) < elevators[be].capacity
        /\ persons[waiting[elevators[be].current_floor][bi]].target
               # elevators[be].current_floor)
       => /\ pc' = "board"
          /\ elevators'[be].passengers =
                 Append(elevators[be].passengers,
                        waiting[elevators[be].current_floor][bi])]_vars

\* an elevator without a direction has taken aboard somebody going down
\* and then somebody going up
C24_Witness ==
    /\ pc = "board"
    /\ elevators[be].target_floor = elevators[be].current_floor
    /\ Len(boarded) = 2
    /\ persons[boarded[1]].target < elevators[be].current_floor
    /\ persons[boarded[2]].target > elevators[be].current_floor

\* C25: the loop of move_elevators takes every elevator with current_floor
\* # target_floor one floor nearer to its target_floor and leaves the others
\* where they are, and no other stage of a round changes a current_floor; so
\* a round changes a current_floor by at most 1 and the move never takes an
\* elevator away from its target.
C25_OneFloorTowardsTarget ==
    [][(pc \in Stages =>
        /\ Len(elevators') = Len(elevators)
        /\ \A k \in 1..Len(elevators) :
               LET e == elevators[k]
                   moved == elevators'[k].current_floor
               IN IF pc # "move"
                  THEN moved = e.current_floor
                  ELSE /\ elevators'[k].target_floor = e.target_floor
                       /\ e.current_floor = e.target_floor => moved = e.current_floor
                       /\ e.current_floor < e.target_floor => moved = e.current_floor + 1
                       /\ e.current_floor > e.target_floor => moved = e.current_floor - 1
                       /\ Abs(moved - e.current_floor) <= 1
                       /\ Abs(e.target_floor - moved)
                              <= Abs(e.target_floor - e.current_floor))]_vars

\* move_elevators has taken one elevator a floor down, short of its target,
\* and left another on the floor that is its target
C25_Witness ==
    /\ pc = "tick"
    /\ \E j, k \in 1..Len(elevators) :
           /\ elevators[j].current_floor = old_elevators[j].current_floor - 1
           /\ elevators[j].target_floor < elevators[j].current_floor
           /\ elevators[k].current_floor = old_elevators[k].current_floor
           /\ elevators[k].current_floor = elevators[k].target_floor

\* C26: update_wait_times adds exactly 1 to the wait_time of every person
\* who is in a waiting list or aboard an elevator and leaves the wait_time
\* of the people in reached_dest as it is; no other step changes the
\* wait_time of anybody.
C26_TickStage ==
    [][\A p \in 1..Len(persons) :
          /\ p \in 1..Len(persons')
          /\ IF pc = "tick"
             THEN /\ (\/ \E f \in DOMAIN waiting : p \in Range(waiting[f])
                      \/ \E e \in 1..Len(elevators) : p \in Range(elevators[e].passengers))
                     => persons'[p].wait_time = persons[p].wait_time + 1
                  /\ p \in Range(reached_dest)
                     => persons'[p].wait_time = persons[p].wait_time
             ELSE persons'[p].wait_time = persons[p].wait_time]_vars

\* three rounds are over: somebody left after one of them and still has a
\* wait_time of 1, somebody else is aboard and a third person is waiting,
\* both with a wait_time that has grown
C26_Witness ==
    /\ EndOfRound
    /\ ticks = 3
    /\ \E p \in Range(reached_dest) : persons[p].wait_time = 1
    /\ \E e \in 1..Len(elevators) : \E p \in Range(elevators[e].passengers) :
           persons[p].wait_time >= 1
    /\ \E f \in DOMAIN waiting : \E p \in Range(waiting[f]) :
           persons[p].wait_time >= 1

\* C27: every step of a run only appends to reached_dest and to
\* total_people; the people in reached_dest are in no waiting list and
\* aboard no elevator, and all of them are in total_people, so neither
\* count ever goes down and the count of reached_dest is at most that of
\* total_people.
C27_AppendOnly ==
    [][/\ IsPrefix(reached_dest, reached_dest')
       /\ IsPrefix(total_people, total_people')
       /\ \A p \in Range(reached_dest') :
              /\ \A f \in DOMAIN waiting' : p \notin Range(waiting'[f])
              /\ \A e \in 1..Len(elevators') : p \notin Range(elevators'[e].passengers)
              /\ p \in Range(total_people')
       /\ NoDuplicates(reached_dest')
       /\ Len(reached_dest') <= Len(total_people')]_vars

\* four people arrived one per round and two of them left, in different
\* rounds
C27_Witness ==
    /\ pc = "finished"
    /\ config.arrival_generator = "SingleArrivals"
    /\ Len(total_people) = 4
    /\ Len(reached_dest) = 2
    /\ stats.people_completed = 2

\* The people generate returned for floor f, in the order given
ArrivalsAt(groups, f) ==
    Flatten([g \in 1..Len(groups) |->
                IF groups[g].floor = f THEN groups[g].people ELSE <<>>])

\* C28: generate_arrivals appends the people generate returned for the
\* round, in the order given, to the end of the waiting list of the floor
\* where they start and to total_people, and leaves the elevators and
\* reached_dest as they are; the keys of waiting are 1..num_floors from
\* the construction of the Simulation on.
C28_ArrivalsStage ==
    [][/\ pc = "arrivals" =>
              /\ pc' = "board"
              /\ \A f \in DOMAIN waiting :
                     waiting'[f] = waiting[f] \o ArrivalsAt(my_arrivals', f)
              /\ \A g \in 1..Len(my_arrivals') :
                     \A k \in 1..Len(my_arrivals'[g].people) :
                         persons'[my_arrivals'[g].people[k]].start = my_arrivals'[g].floor
              /\ total_people' = total_people \o Returned(my_arrivals')
              /\ elevators' = elevators
              /\ reached_dest' = reached_dest
       /\ (pc \in Stages \/ pc' \in Stages) =>
              /\ DOMAIN waiting = 1..config.num_floors
              /\ DOMAIN waiting' = 1..config.num_floors]_vars

\* somebody has arrived on a floor where somebody else was waiting and
\* stands behind them
C28_Witness ==
    /\ pc = "board"
    /\ be = 1
    /\ bi = 1
    /\ \E f \in DOMAIN waiting :
           /\ Len(waiting[f]) >= 2
           /\ ArrivalsAt(my_arrivals, f) = <<waiting[f][Len(waiting[f])]>>
           /\ persons[waiting[f][1]].wait_time >= 1

\* C29: under FurthestFloor, with a finite arrival schedule inside the
\* building, start # target and capacity >= 1, every person who arrives is
\* eventually in reached_dest when the rounds go on for ever; no elevator
\* keeps its passengers aboard for ever.
C29_EveryoneDelivered ==
    \A p \in 1..ForeverPeople :
        (config.moving_algorithm = "FurthestFloor"
         /\ p \in Range(total_people))
            ~> (p \in Range(reached_dest))

\* C30: under EndToEndLoop, with a finite arrival schedule inside the
\* building, start # target and capacity >= 1, every person who waits on a
\* floor is eventually a passenger of an elevator, and every person who
\* arrives is eventually in reached_dest, when the rounds go on for ever.
C30_EveryoneBoardsAndArrives ==
    \A p \in 1..ForeverPeople :
        /\ (config.moving_algorithm = "EndToEndLoop"
            /\ \E floor \in DOMAIN waiting : p \in Range(waiting[floor]))
               ~> (\E e \in DOMAIN elevators : p \in Range(elevators[e].passengers))
        /\ (config.moving_algorithm = "EndToEndLoop"
            /\ p \in Range(total_people))
               ~> (p \in Range(reached_dest))

\* Two people who arrived on the same floor have both been carried to their
\* floors by the one elevator, which holds one person; the second of them
\* waited for it to come round again.
C30_Witness ==
    /\ config.moving_algorithm = "EndToEndLoop"
    /\ config.num_elevators = 1
    /\ config.elevator_capacity = 1
    /\ Len(persons) = 2
    /\ persons[1].start = persons[2].start
    /\ reached_dest = <<1, 2>>
    /\ persons[2].wait_time > persons[1].wait_time

\* The round in which person p arrives: the round of their row in the file,
\* or the round in which SingleArrivals makes them up
ArrivalRound(p) ==
    IF config.arrival_generator = "SingleArrivals" THEN p - 1 ELSE csv[p].round

\* C31: the wait_time of everyone waiting or aboard is the number of ticks
\* since the round in which they arrived; a person enters reached_dest with
\* a wait_time equal to the number of rounds from the one in which they
\* arrived to the one in which they leave the elevator, which is at least
\* the distance between their floors, and keeps it from then on.
C31_WaitTimes ==
    [][\A p \in 1..Len(persons') :
          /\ p \in Range(Travelling(elevators', waiting')) =>
                 persons'[p].wait_time = ticks' - ArrivalRound(p)
          /\ p \in Range(reached_dest') =>
                 /\ persons'[p].wait_time >=
                        Abs(persons'[p].target - persons'[p].start)
                 /\ persons'[p].wait_time =
                        (IF p \in Range(reached_dest)
                         THEN persons[p].wait_time
                         ELSE i - ArrivalRound(p))]_vars

\* A person who arrived in round 1 has left the elevator after more rounds
\* than there are floors between start and target, while another person is
\* still on the way
C31_Witness ==
    /\ pc = "finished"
    /\ \E p \in Range(reached_dest) :
           /\ ArrivalRound(p) = 1
           /\ persons[p].wait_time > Abs(persons[p].target - persons[p].start)
    /\ \E p \in Range(Travelling(elevators, waiting)) :
           persons[p].wait_time \in 1..(ticks - 1)

\* An elevator without passengers whose target is the floor it is on
EmptyAndIdle(e) == e.passengers = <<>> /\ e.target_floor = e.current_floor

SomeoneWaits == \E floor \in DOMAIN waiting : waiting[floor] # <<>>

\* C32: under FurthestFloor, when update_target_floors is called nobody
\* waits on the floor of an elevator that is empty and idle; if somebody
\* waits anywhere, the call gives every such elevator a target other than
\* its floor, and move_elevators then moves it off that floor.
C32_EmptyIdleElevatorLeaves ==
    [][config.moving_algorithm = "FurthestFloor" =>
          /\ pc = "retarget" =>
                 \A e \in DOMAIN elevators :
                     EmptyAndIdle(elevators[e]) =>
                         /\ waiting[elevators[e].current_floor] = <<>>
                         /\ SomeoneWaits =>
                                elevators'[e].target_floor
                                    # elevators[e].current_floor
          /\ pc = "move" =>
                 \A e \in DOMAIN elevators :
                     (EmptyAndIdle(old_elevators[e]) /\ SomeoneWaits) =>
                         elevators'[e].current_floor
                             # elevators[e].current_floor]_vars

\* Two elevators stood empty and idle on floor 1 when the targets were
\* chosen, somebody waits on another floor, and both have moved
C32_Witness ==
    /\ config.moving_algorithm = "FurthestFloor"
    /\ pc = "tick"
    /\ Len(elevators) = 2
    /\ SomeoneWaits
    /\ \A e \in DOMAIN elevators :
           /\ EmptyAndIdle(old_elevators[e])
           /\ elevators[e].current_floor # old_elevators[e].current_floor

====
